---- MODULE Spec2Model ----
(***************************************************************************)
(* PAPPI Calculator Auth API: registration, login and access tokens.       *)
(*                                                                         *)
(* Three specifications over one set of variables:                         *)
(*   Spec       the request handlers of auth.py running concurrently       *)
(*              against the estudiantes table (store);                     *)
(*   SpecValid  the field validators of EstudianteCreate applied to        *)
(*              strings of every interesting length and character class;   *)
(*   SpecToken  create_access_token / decode_access_token over time.       *)
(*                                                                         *)
(* Text is a sequence of characters, a character a one-element string; a   *)
(* character outside ASCII is written by its code point ("U+00D1").        *)
(* Time is counted in whole seconds, the resolution of the "exp" claim.    *)
(***************************************************************************)
EXTENDS Integers, Sequences, FiniteSets, TLC

VARIABLES
    store,      \* Spec: the committed rows of table estudiantes
    now,        \* SpecToken: the clock (datetime.utcnow), in seconds
    pc,         \* Spec: per worker, the position of the handler it runs
    req,        \* Spec: per worker, the request it is serving
    obs,        \* Spec: per worker, what its handler saw (history, not program state)
    out,        \* Spec: the response sent by the step just taken: [req, resp, obs],
                \*       None when the step sent none
    unknown,    \* Spec: the last response to a login with a correo of no account
                \*       (history), None before any
    acked,      \* Spec: the (correo, contrasena) pairs whose registration returned 201
    vfield,     \* SpecValid: the field being validated
    vvalue,     \* SpecValid: the submitted string
    vresult,    \* SpecValid: None before validation, the validator's outcome after
    tissue,     \* SpecToken: the issue request and its time, None before issue
    token,      \* SpecToken: the token string presented to decode_access_token
    decoded     \* SpecToken: the last decode: [at, token, data], None before any

vars == <<store, now, pc, req, obs, out, unknown, acked,
          vfield, vvalue, vresult, tissue, token, decoded>>

\* Python's None, a record so that it compares with rows, requests and responses
None == [none |-> TRUE]

-----------------------------------------------------------------------------
(* Bounds of the model *)

\* the handlers of Spec read a clock between 0 and MaxNow
MaxNow == 1
\* workers of the pool, each serving one request at a time
NumWorkers == 2
\* a test string is a free part of at most MaxVar characters, then a filler
MaxVar == 2

-----------------------------------------------------------------------------
(* Characters and the classes the validators distinguish *)

AsciiUpper == {"A", "B", "C", "D", "E", "F", "G", "H", "I", "J", "K", "L", "M",
               "N", "O", "P", "Q", "R", "S", "T", "U", "V", "W", "X", "Y", "Z"}
AsciiLower == {"a", "b", "c", "d", "e", "f", "g", "h", "i", "j", "k", "l", "m",
               "n", "o", "p", "q", "r", "s", "t", "u", "v", "w", "x", "y", "z"}
AsciiDigit == {"0", "1", "2", "3", "4", "5", "6", "7", "8", "9"}

\* U+0663 ARABIC-INDIC DIGIT THREE: category Nd; U+00B2 SUPERSCRIPT TWO:
\* category No with Numeric_Type=Digit; U+00D1, U+00F1: N and n with tilde.
ArabicThree == "U+0663"
SuperTwo    == "U+00B2"
UpperEnye   == "U+00D1"
LowerEnye   == "U+00F1"

\* str.isdigit() is true of a character whose Numeric_Type is Digit or Decimal
IsDigitChar(c) == c \in AsciiDigit \cup {ArabicThree, SuperTwo}
\* \d in a str pattern matches any character of category Nd
BackslashD == AsciiDigit \cup {ArabicThree}
\* [A-Z] and [a-z] are code-point ranges
UpperRange == AsciiUpper
LowerRange == AsciiLower

\* str.isdigit(): at least one character and every character a digit
isdigit(v) == Len(v) > 0 /\ \A i \in 1..Len(v) : IsDigitChar(v[i])
\* re.search(pattern, v) for a pattern that is one character class
re_search(class, v) == \E i \in 1..Len(v) : v[i] \in class

Rep(c, n) == [i \in 1..n |-> c]

-----------------------------------------------------------------------------
(* schemas/estudiante.py: field constraints and validators *)

NombresMinLength == 2
NombresMaxLength == 100
DniMinLength == 8
DniMaxLength == 20
DniDigits == 8
ContrasenaMinLength == 8
ContrasenaMaxLength == 100
ContrasenaValidatorMinLength == 8

Valid == [ok |-> TRUE, type |-> "", msg |-> ""]
Invalid(type, msg) == [ok |-> FALSE, type |-> type, msg |-> msg]

\* Field(min_length, max_length) on a str: checked before any field_validator
StrField(v, min_length, max_length) ==
    IF Len(v) < min_length THEN Invalid("string_too_short", "String should have at least {min_length} characters")
    ELSE IF Len(v) > max_length THEN Invalid("string_too_long", "String should have at most {max_length} characters")
    ELSE Valid

\* EstudianteCreate.validar_dni: the first raise wins
validar_dni(v) ==
    IF ~isdigit(v) THEN Invalid("value_error", "El DNI debe contener solo numeros")
    ELSE IF Len(v) # DniDigits THEN Invalid("value_error", "El DNI debe tener exactamente 8 digitos")
    ELSE Valid

\* EstudianteCreate.validar_contrasena: the first raise wins
validar_contrasena(v) ==
    IF Len(v) < ContrasenaValidatorMinLength
        THEN Invalid("value_error", "La contrasena debe tener al menos 8 caracteres")
    ELSE IF ~re_search(UpperRange, v)
        THEN Invalid("value_error", "La contrasena debe contener al menos una letra mayuscula")
    ELSE IF ~re_search(LowerRange, v)
        THEN Invalid("value_error", "La contrasena debe contener al menos una letra minuscula")
    ELSE IF ~re_search(BackslashD, v)
        THEN Invalid("value_error", "La contrasena debe contener al menos un numero")
    ELSE Valid

\* a field_validator (mode "after") runs only when the Field constraints passed
FieldNombres(v) == StrField(v, NombresMinLength, NombresMaxLength)
FieldApellidos(v) == StrField(v, NombresMinLength, NombresMaxLength)
FieldDni(v) ==
    LET f == StrField(v, DniMinLength, DniMaxLength) IN IF f.ok THEN validar_dni(v) ELSE f
FieldContrasena(v) ==
    LET f == StrField(v, ContrasenaMinLength, ContrasenaMaxLength)
    IN IF f.ok THEN validar_contrasena(v) ELSE f

\* EmailStr: the address parses. Addresses are atomic here; the ones that parse:
WellFormedCorreos == {"ana@uni.edu", "luis@uni.edu"}
FieldCorreo(v) ==
    IF v \in WellFormedCorreos THEN Valid
    ELSE Invalid("value_error", "value is not a valid email address")

\* pydantic validates every field and reports the failing ones together
EstudianteCreateErrors(d) ==
    {e \in { [loc |-> "nombres", err |-> FieldNombres(d.nombres)],
             [loc |-> "apellidos", err |-> FieldApellidos(d.apellidos)],
             [loc |-> "correo_institucional", err |-> FieldCorreo(d.correo_institucional)],
             [loc |-> "dni", err |-> FieldDni(d.dni)],
             [loc |-> "contrasena", err |-> FieldContrasena(d.contrasena)] } : ~e.err.ok}

\* LoginRequest: correo_institucional is an EmailStr, contrasena any str
LoginRequestErrors(d) ==
    {e \in { [loc |-> "correo_institucional", err |-> FieldCorreo(d.correo_institucional)] } : ~e.err.ok}

\* the RequestValidationError handler of auth.py
validation_exception_handler(errors) == [status |-> 422, body |-> [detail |-> errors]]

-----------------------------------------------------------------------------
(* models/estudiante.py and services/auth_service.py *)

Max(S) == CHOOSE x \in S : \A y \in S : y <= x

\* pwd_context.hash: bcrypt with a fresh random salt kept in the hash string.
\* The digest is one-way and, for a given salt, distinct for distinct passwords
\* (of at most 72 bytes, as all passwords of Spec are): it is written as the
\* pair it is a function of.
hash_password(password, salt) ==
    [scheme |-> "bcrypt", salt |-> salt, digest |-> <<salt, password>>]

\* verify_password hashing the plaintext anew, with a salt of its own
verify_password_rehash(plain_password, hashed_password) ==
    hash_password(plain_password, "saltA") = hashed_password

\* pwd_context.verify: hash the plaintext with the salt of the stored hash, compare
verify_password(plain_password, hashed_password) ==
    hash_password(plain_password, hashed_password.salt) = hashed_password

\* get_estudiante_by_correo with the comparison of its filter inverted
get_estudiante_by_correo_invertido(db, correo_institucional) ==
    LET rows == {r \in db : r.correo_institucional # correo_institucional}
    IN IF rows = {} THEN None ELSE CHOOSE r \in rows : r.id = Max({x.id : x \in rows})

\* query(Estudiante).filter(correo_institucional == ...).first()
get_estudiante_by_correo(db, correo_institucional) ==
    LET rows == {r \in db : r.correo_institucional = correo_institucional}
    IN IF rows = {} THEN None ELSE CHOOSE r \in rows : r.id = Max({x.id : x \in rows})

\* query(Estudiante).filter(dni == ...).first()
get_estudiante_by_dni(db, dni) ==
    LET rows == {r \in db : r.dni = dni}
    IN IF rows = {} THEN None ELSE CHOOSE r \in rows : r.id = Max({x.id : x \in rows})

\* the table with unique=True on correo_institucional alone
UniqueViolation_solo_correo(db, row) ==
    \E r \in db : r.correo_institucional = row.correo_institucional

\* Column(..., unique=True) on correo_institucional and on dni: the table
\* rejects a row that repeats either value
UniqueViolation(db, row) ==
    \E r \in db : \/ r.correo_institucional = row.correo_institucional
                  \/ r.dni = row.dni

\* id = Column(Integer, primary_key=True): the next value of the sequence
NextId(db) == IF db = {} THEN 1 ELSE Max({r.id : r \in db}) + 1

\* create_estudiante on a table that keeps the row it rejects
create_estudiante_parcial(db, estudiante_data, salt) ==
    LET db_estudiante ==
            [id |-> NextId(db),
             nombres |-> estudiante_data.nombres,
             apellidos |-> estudiante_data.apellidos,
             correo_institucional |-> estudiante_data.correo_institucional,
             dni |-> estudiante_data.dni,
             contrasena_hash |-> hash_password(estudiante_data.contrasena, salt)]
    IN IF UniqueViolation(db, db_estudiante)
       THEN [raised |-> "IntegrityError", db |-> db \cup {db_estudiante}, estudiante |-> None]
       ELSE [raised |-> "", db |-> db \cup {db_estudiante}, estudiante |-> db_estudiante]

\* create_estudiante: hash, add, commit, refresh. commit either stores the whole
\* row or raises IntegrityError and stores nothing. created_at and updated_at are
\* filled in by the database server and read by no handler: the row leaves them out.
create_estudiante(db, estudiante_data, salt) ==
    LET db_estudiante ==
            [id |-> NextId(db),
             nombres |-> estudiante_data.nombres,
             apellidos |-> estudiante_data.apellidos,
             correo_institucional |-> estudiante_data.correo_institucional,
             dni |-> estudiante_data.dni,
             contrasena_hash |-> hash_password(estudiante_data.contrasena, salt)]
    IN IF UniqueViolation(db, db_estudiante)
       THEN [raised |-> "IntegrityError", db |-> db, estudiante |-> None]
       ELSE [raised |-> "", db |-> db \cup {db_estudiante}, estudiante |-> db_estudiante]

\* authenticate_estudiante without the password check
authenticate_estudiante_sin_verificar(db, correo_institucional, contrasena) ==
    get_estudiante_by_correo(db, correo_institucional)

\* authenticate_estudiante: the row, or None for an unknown correo and for a
\* password that does not verify
authenticate_estudiante(db, correo_institucional, contrasena) ==
    LET estudiante == get_estudiante_by_correo(db, correo_institucional)
    IN IF estudiante = None THEN None
       ELSE IF ~verify_password(contrasena, estudiante.contrasena_hash) THEN None
       ELSE estudiante

SECRET_KEY == "secret-key"
ACCESS_TOKEN_EXPIRE_MINUTES == 30
SecondsPerMinute == 60

\* jwt.encode: header.payload.signature, the signature a MAC of the payload
\* under the key
Sign(key, payload) == <<"HS256", key, payload>>
jwt_encode(payload, key) == [payload |-> payload, signature |-> Sign(key, payload)]

\* timedelta(seconds=n)
timedelta(n) == [seconds |-> n]

\* create_access_token. expires_delta is None or a timedelta; the test
\* "if expires_delta:" is false of None and of timedelta(0) alike.
create_access_token(data, expires_delta, t) ==
    LET expire == IF expires_delta # None /\ expires_delta.seconds # 0
                  THEN t + expires_delta.seconds
                  ELSE t + ACCESS_TOKEN_EXPIRE_MINUTES * SecondsPerMinute
    IN jwt_encode([sub |-> data.sub, exp |-> expire], SECRET_KEY)

\* the strings that are no three-part JWT at all
Malformed == {[raw |-> ""], [raw |-> "not.a.jwt"]}

\* decode_access_token: jwt.decode raises JWTError for a malformed token, a wrong
\* signature and an expired token (exp < now); every JWTError gives None.
decode_access_token(tok, t) ==
    IF tok \in Malformed THEN None
    ELSE IF tok.signature # Sign(SECRET_KEY, tok.payload) THEN None
    ELSE IF tok.payload.exp < t THEN None
    ELSE IF "sub" \notin DOMAIN tok.payload THEN None
    ELSE [correo_institucional |-> tok.payload.sub]

-----------------------------------------------------------------------------
(* auth.py: responses and the login handler *)

HTTPException(status_code, detail) == [status |-> status_code, body |-> [detail |-> detail]]

\* f"Error al registrar el estudiante: {str(e)}"
ErrorAlRegistrar(e) ==
    IF e = "IntegrityError" THEN "Error al registrar el estudiante: IntegrityError"
    ELSE "Error al registrar el estudiante: OperationalError"

\* an exception no handler catches: the server's plain 500
InternalServerError == [status |-> 500, body |-> [detail |-> "Internal Server Error"]]

\* response_model=EstudianteResponse: the row without contrasena_hash
EstudianteResponse(e) ==
    [status |-> 201,
     body |-> [id |-> e.id, nombres |-> e.nombres, apellidos |-> e.apellidos,
               correo_institucional |-> e.correo_institucional, dni |-> e.dni]]

\* login telling an unknown correo (404) from a wrong password (401)
login_delator(db, login_data, t) ==
    LET estudiante == authenticate_estudiante(db, login_data.correo_institucional,
                                              login_data.contrasena)
    IN IF get_estudiante_by_correo(db, login_data.correo_institucional) = None
       THEN [status |-> 404,
             body |-> [detail |-> "Correo institucional no registrado"],
             headers |-> "WWW-Authenticate: Bearer"]
       ELSE IF estudiante = None
       THEN [status |-> 401,
             body |-> [detail |-> "Correo institucional o contrasena incorrectos"],
             headers |-> "WWW-Authenticate: Bearer"]
       ELSE [status |-> 200,
             body |-> [access_token |->
                          create_access_token(
                              [sub |-> estudiante.correo_institucional],
                              timedelta(ACCESS_TOKEN_EXPIRE_MINUTES * SecondsPerMinute), t),
                       token_type |-> "bearer"]]

\* login: authenticate, then 401 or a bearer token for the row's correo
login(db, login_data, t) ==
    LET estudiante == authenticate_estudiante(db, login_data.correo_institucional,
                                              login_data.contrasena)
    IN IF estudiante = None
       THEN [status |-> 401,
             body |-> [detail |-> "Correo institucional o contrasena incorrectos"],
             headers |-> "WWW-Authenticate: Bearer"]
       ELSE [status |-> 200,
             body |-> [access_token |->
                          create_access_token(
                              [sub |-> estudiante.correo_institucional],
                              timedelta(ACCESS_TOKEN_EXPIRE_MINUTES * SecondsPerMinute), t),
                       token_type |-> "bearer"]]

-----------------------------------------------------------------------------
(* Requests of Spec *)

Ana == <<"A", "n", "a">>
Lopez == <<"L", "o", "p", "e", "z">>
Dni1 == <<"1", "2", "3", "4", "5", "6", "7", "8">>
Dni2 == <<"8", "7", "6", "5", "4", "3", "2", "1">>
DniSiete == <<"1", "2", "3", "4", "5", "6", "7">>
Secret123 == <<"S", "e", "c", "r", "e", "t", "1", "2", "3">>
Otra4567 == <<"O", "t", "r", "a", "4", "5", "6", "7">>
secret12 == <<"s", "e", "c", "r", "e", "t", "1", "2">>

Correos == {"ana@uni.edu", "luis@uni.edu"}
Salts == {"saltA", "saltB"}

Registro(correo, dni, contrasena) ==
    [op |-> "registro",
     data |-> [nombres |-> Ana, apellidos |-> Lopez, correo_institucional |-> correo,
               dni |-> dni, contrasena |-> contrasena]]
Login(correo, contrasena) ==
    [op |-> "login", data |-> [correo_institucional |-> correo, contrasena |-> contrasena]]

\* each person registers with a password of their own
ContrasenaDe(correo) == IF correo = "ana@uni.edu" THEN Secret123 ELSE Otra4567

RegistroRequests ==
    {Registro(c, d, ContrasenaDe(c)) : c \in Correos, d \in {Dni1, Dni2}}
    \cup {Registro("ana@uni.edu", DniSiete, Secret123),
          Registro("ana@uni.edu", Dni1, secret12),
          Registro("ana.uni.edu", Dni1, Secret123)}
LoginRequests ==
    {Login(c, p) : c \in Correos, p \in {Secret123, Otra4567}}
    \cup {Login("ana.uni.edu", Secret123)}

\* the requests a storage fault is tried on at their first query
FaultRequests == {Registro("ana@uni.edu", Dni1, Secret123), Login("ana@uni.edu", Secret123)}

\* the validation of each request body, computed once
RegistroErrors == [r \in RegistroRequests |-> EstudianteCreateErrors(r.data)]
LoginErrors == [r \in LoginRequests |-> LoginRequestErrors(r.data)]

Workers == 1..NumWorkers

\* what a handler saw, recorded from the table itself and not from the
\* handler's own queries
NoObs == [cause |-> "", dbcalls |-> 0, correo_seen |-> FALSE, both_seen |-> FALSE,
          dni_seen |-> FALSE, fresh |-> FALSE, acked_before |-> FALSE, at |-> 0]

CorreoInUse(db, data) == \E r \in db : r.correo_institucional = data.correo_institucional
DniInUse(db, data) == \E r \in db : r.dni = data.dni
\* no row of the table has the correo or the dni of the request
Fresh(db, data) == ~CorreoInUse(db, data) /\ ~DniInUse(db, data)
\* the plaintext a stored hash was made from
PasswordOf(r) == r.contrasena_hash.digest[2]

-----------------------------------------------------------------------------
(* Spec: the handlers, one database access per step *)

validVars == <<vfield, vvalue, vresult>>
tokenVars == <<tissue, token, decoded>>

\* the handler of worker w returns: the response goes out, the worker is free
Finish(w, request, response, o) ==
    /\ out' = [req |-> request, resp |-> response, obs |-> o]
    /\ pc' = [pc EXCEPT ![w] = "idle"]
    /\ req' = [req EXCEPT ![w] = None]
    /\ obs' = [obs EXCEPT ![w] = NoObs]

Goto(w, label, o) ==
    /\ pc' = [pc EXCEPT ![w] = label]
    /\ obs' = [obs EXCEPT ![w] = o]
    /\ out' = None
    /\ UNCHANGED req

Called(o) == [o EXCEPT !.dbcalls = @ + 1]

\* the pool hands a new request to its first free worker
Free(w) == pc[w] = "idle" /\ \A v \in Workers : pc[v] = "idle" => w <= v

\* POST /registro is served up to its first query: the body is validated (422
\* without touching the table), then existing_correo = get_estudiante_by_correo(...),
\* 400 if found. Nothing shared is read or written between arrival and that query.
RegistroCorreo(w, r) ==
    /\ Free(w)
    /\ LET data == r.data
           errors == RegistroErrors[r]
           existing_correo == get_estudiante_by_correo(store, data.correo_institucional)
           o == [Called(NoObs) EXCEPT
                    !.correo_seen = CorreoInUse(store, data),
                    !.both_seen = CorreoInUse(store, data) /\ DniInUse(store, data)]
       IN IF errors # {}
          THEN Finish(w, r, validation_exception_handler(errors),
                      [NoObs EXCEPT !.cause = "validation"])
          ELSE IF existing_correo # None
          THEN Finish(w, r, HTTPException(400, "El correo institucional ya esta registrado"),
                      [o EXCEPT !.cause = "dup_correo", !.fresh = Fresh(store, data)])
          ELSE /\ pc' = [pc EXCEPT ![w] = "lookup_dni"]
               /\ req' = [req EXCEPT ![w] = r]
               /\ obs' = [obs EXCEPT ![w] = o]
               /\ out' = None
    /\ UNCHANGED <<store, now, unknown, acked, validVars, tokenVars>>

\* existing_dni = get_estudiante_by_dni(...); 400 if found
LookupDni(w) ==
    /\ pc[w] = "lookup_dni"
    /\ LET data == req[w].data
           existing_dni == get_estudiante_by_dni(store, data.dni)
           o == [Called(obs[w]) EXCEPT !.dni_seen = DniInUse(store, data)]
       IN IF existing_dni # None
          THEN Finish(w, req[w], HTTPException(400, "El DNI ya esta registrado"),
                      [o EXCEPT !.cause = "dup_dni", !.fresh = Fresh(store, data)])
          ELSE Goto(w, "create", o)
    /\ UNCHANGED <<store, now, unknown, acked, validVars, tokenVars>>

\* try: create_estudiante(...) except Exception: 500
Create(w, salt) ==
    /\ pc[w] = "create"
    /\ LET data == req[w].data
           r == create_estudiante(store, data, salt)
           o == [Called(obs[w]) EXCEPT !.fresh = Fresh(store, data)]
       IN /\ store' = r.db
          /\ IF r.raised # ""
             THEN /\ Finish(w, req[w],
                            HTTPException(500, ErrorAlRegistrar(r.raised)),
                            [o EXCEPT !.cause = "unique_violation"])
                  /\ UNCHANGED acked
             ELSE /\ Finish(w, req[w], EstudianteResponse(r.estudiante),
                            [o EXCEPT !.cause = "created"])
                  /\ acked' = acked \cup {<<data.correo_institucional, data.contrasena>>}
    /\ UNCHANGED <<now, unknown, validVars, tokenVars>>

\* POST /login, served when the clock reads t: the body is validated, then one
\* query, the password check and the token
LoginRequest(w, r, t) ==
    /\ Free(w)
    /\ LET data == r.data
           errors == LoginErrors[r]
           known == {e \in store : e.correo_institucional = data.correo_institucional}
           cause == IF known = {} THEN "unknown_correo"
                    ELSE IF \A e \in known : PasswordOf(e) # data.contrasena
                         THEN "wrong_password"
                         ELSE "authenticated"
           response == login(store, data, t)
       IN IF errors # {}
          THEN /\ Finish(w, r, validation_exception_handler(errors),
                         [NoObs EXCEPT !.cause = "validation"])
               /\ UNCHANGED unknown
          ELSE /\ Finish(w, r, response,
                         [Called(NoObs) EXCEPT
                             !.cause = cause, !.at = t,
                             !.acked_before =
                                 <<data.correo_institucional, data.contrasena>> \in acked])
               /\ unknown' = IF cause = "unknown_correo" THEN response ELSE unknown
    /\ UNCHANGED <<store, now, acked, validVars, tokenVars>>

\* the database is unreachable when the next query or the commit of a handler is
\* sent: the call raises OperationalError and has had no effect. Only create_estudiante is called
\* inside a try; elsewhere the exception reaches the server.
StorageFault(w) ==
    /\ pc[w] \in {"lookup_dni", "create"}
    /\ Finish(w, req[w],
              IF pc[w] = "create"
              THEN HTTPException(500, ErrorAlRegistrar("OperationalError"))
              ELSE InternalServerError,
              [Called(obs[w]) EXCEPT !.cause = "db_fault"])
    /\ UNCHANGED <<store, now, unknown, acked, validVars, tokenVars>>

\* the same at the first query of a request whose body is valid
StorageFaultFirst(w, r) ==
    /\ Free(w)
    /\ IF r.op = "registro" THEN RegistroErrors[r] = {} ELSE LoginErrors[r] = {}
    /\ Finish(w, r, InternalServerError, [Called(NoObs) EXCEPT !.cause = "db_fault"])
    /\ UNCHANGED <<store, now, unknown, acked, validVars, tokenVars>>

Init ==
    /\ store = {}
    /\ now = 0
    /\ pc = [w \in Workers |-> "idle"]
    /\ req = [w \in Workers |-> None]
    /\ obs = [w \in Workers |-> NoObs]
    /\ out = None
    /\ unknown = None
    /\ acked = {}
    /\ vfield = "" /\ vvalue = <<>> /\ vresult = None
    /\ tissue = None /\ token = None /\ decoded = None

Next ==
    \/ \E w \in Workers, r \in RegistroRequests : RegistroCorreo(w, r)
    \/ \E w \in Workers : LookupDni(w)
    \/ \E w \in Workers, salt \in Salts : Create(w, salt)
    \/ \E w \in Workers, r \in LoginRequests, t \in 0..MaxNow : LoginRequest(w, r, t)
    \/ \E w \in Workers : StorageFault(w)
    \/ \E w \in Workers, r \in FaultRequests : StorageFaultFirst(w, r)

Spec == Init /\ [][Next]_vars

-----------------------------------------------------------------------------
(* SpecValid: one field of a registration body, validated *)

mainVars == <<store, pc, req, obs, out, unknown, acked>>

Alphabet == {"A", "a", "1", "!", ArabicThree, SuperTwo, UpperEnye}

\* every sequence over S of length at most n
RECURSIVE SeqsUpTo(_, _)
SeqsUpTo(S, n) ==
    IF n = 0 THEN {<<>>}
    ELSE LET shorter == SeqsUpTo(S, n - 1)
         IN shorter \cup {Append(q, c) : q \in shorter, c \in S}

\* the lengths around every limit of the schema: 2, 8, 20 and 100
FillLengths == {0, 1, 5, 6, 7, 8, 18, 19, 20, 97, 98, 99, 100}

\* a free part followed by a run of one digit or of one letter
TestStrings ==
    {free \o Rep(c, n) : free \in SeqsUpTo(Alphabet, MaxVar), c \in {"1", "a"}, n \in FillLengths}

Fields == {"nombres", "apellidos", "dni", "contrasena"}

InitValid ==
    /\ vfield \in Fields
    /\ vvalue \in TestStrings
    /\ vresult = None
    /\ store = {} /\ now = 0 /\ out = None /\ unknown = None /\ acked = {}
    /\ pc = [w \in Workers |-> "idle"]
    /\ req = [w \in Workers |-> None]
    /\ obs = [w \in Workers |-> NoObs]
    /\ tissue = None /\ token = None /\ decoded = None

Validate(field, result) ==
    /\ vfield = field
    /\ vresult = None
    /\ vresult' = result
    /\ UNCHANGED <<vfield, vvalue, now, mainVars, tokenVars>>

ValidateNombres == Validate("nombres", FieldNombres(vvalue))
ValidateApellidos == Validate("apellidos", FieldApellidos(vvalue))
ValidateDni == Validate("dni", FieldDni(vvalue))
ValidateContrasena == Validate("contrasena", FieldContrasena(vvalue))

NextValid ==
    \/ ValidateNombres
    \/ ValidateApellidos
    \/ ValidateDni
    \/ ValidateContrasena

SpecValid == InitValid /\ [][NextValid]_vars

-----------------------------------------------------------------------------
(* SpecToken: a token is issued, time passes, tokens are decoded *)

Subjects == {"ana@uni.edu", "luis@uni.edu"}

\* expires_delta as a caller may pass it: absent, zero, one minute, the default
Deltas == {None, timedelta(0), timedelta(SecondsPerMinute),
           timedelta(ACCESS_TOKEN_EXPIRE_MINUTES * SecondsPerMinute)}

\* the instants looked at: around issue, one minute, 29, 30 and 31 minutes
Instants == {0, 1, 59, 60, 61, 62, 1739, 1740, 1741, 1799, 1800, 1801, 1802,
             1859, 1860, 1861, 1862}

\* what is presented to decode_access_token: the token as issued, the token with
\* its subject changed, a token signed with another key, a string that is no JWT
Kinds == {"issued", "tampered", "forged", "malformed"}
Present(kind) ==
    CASE kind = "issued" -> token
      [] kind = "tampered" ->
            [token EXCEPT !.payload = [@ EXCEPT !.sub = "mallory@uni.edu"]]
      [] kind = "forged" -> jwt_encode(token.payload, "another-key")
      [] kind = "malformed" -> [raw |-> "not.a.jwt"]

InitToken ==
    /\ now \in {0, 1}
    /\ tissue = None /\ token = None /\ decoded = None
    /\ store = {} /\ out = None /\ unknown = None /\ acked = {}
    /\ pc = [w \in Workers |-> "idle"]
    /\ req = [w \in Workers |-> None]
    /\ obs = [w \in Workers |-> NoObs]
    /\ vfield = "" /\ vvalue = <<>> /\ vresult = None

Issue(sub, delta) ==
    /\ tissue = None
    /\ tissue' = [at |-> now, sub |-> sub, delta |-> delta]
    /\ token' = create_access_token([sub |-> sub], delta, now)
    /\ UNCHANGED <<now, decoded, mainVars, validVars>>

Advance(t) ==
    /\ t > now
    /\ now' = t
    /\ UNCHANGED <<tissue, token, decoded, mainVars, validVars>>

Decode(kind) ==
    /\ tissue # None
    /\ decoded' = [at |-> now, kind |-> kind, data |-> decode_access_token(Present(kind), now)]
    /\ UNCHANGED <<now, tissue, token, mainVars, validVars>>

NextToken ==
    \/ \E sub \in Subjects, delta \in Deltas : Issue(sub, delta)
    \/ \E t \in Instants : Advance(t)
    \/ \E kind \in Kinds : Decode(kind)

SpecToken == InitToken /\ [][NextToken]_vars

-----------------------------------------------------------------------------
(* The claims *)

\* the response has this status and this detail
Is(response, status, detail) ==
    response.status = status /\ response.body.detail = detail

Sent(op) == out # None /\ out.req.op = op

DuplicateEmail(response) == Is(response, 400, "El correo institucional ya esta registrado")
DuplicateNationalId(response) == Is(response, 400, "El DNI ya esta registrado")

\* C1: in every reachable state of Spec, whatever the interleaving of the
\* registrations, no two rows of the table share a correo_institucional and no
\* two rows share a dni.
C1_UniqueKeys ==
    \A r1 \in store, r2 \in store :
        (r1.correo_institucional = r2.correo_institucional \/ r1.dni = r2.dni) => r1 = r2

\* two registrations raced and the table turned the second one away
C1_Witness ==
    /\ Sent("registro")
    /\ out.obs.cause = "unique_violation"
    /\ \E r \in store : r.correo_institucional # out.req.data.correo_institucional
                        /\ r.dni = out.req.data.dni

\* C2 (as claimed): a registration that passed both pre-checks and whose insert
\* the table rejects for a repeated key answers with a conflict the user can
\* correct (400 or 409), never with a server fault.
C2_RaceLoserGetsConflict ==
    (Sent("registro") /\ out.obs.cause = "unique_violation")
        => out.resp.status \in {400, 409}

\* C3: a registration with a valid body answers DuplicateEmail when its correo was
\* in the table at the correo lookup, whether or not its dni was there too, and
\* DuplicateNationalId when its correo was not and its dni was in the table at
\* the dni lookup.
C3_EmailBeforeNationalId ==
    Sent("registro") =>
        /\ out.obs.correo_seen => DuplicateEmail(out.resp)
        /\ out.obs.both_seen => DuplicateEmail(out.resp)
        /\ (~out.obs.correo_seen /\ out.obs.dni_seen) => DuplicateNationalId(out.resp)

\* both keys of the request were in the table, in two different rows
C3_Witness ==
    /\ Sent("registro")
    /\ out.obs.both_seen
    /\ Cardinality(store) = 2
    /\ DuplicateEmail(out.resp)

\* C4: a registration with a valid body whose correo and dni are in no row of the
\* table when it completes (so in none during the call, rows being never
\* removed), the storage answering, returns 201 with the id of the one row it
\* added; and a login, the storage answering, with the correo and the password
\* of a registration that returned 201 earlier returns 200 with a token that
\* decodes to that correo, whatever was served in between.
C4_RegisterThenLogin ==
    /\ (Sent("registro") /\ out.obs.cause \notin {"validation", "db_fault"} /\ out.obs.fresh)
          => /\ out.resp.status = 201
             /\ out.resp.body.id >= 1
             /\ \E r \in store :
                   /\ r.id = out.resp.body.id
                   /\ r.dni = out.req.data.dni
                   /\ {x \in store : x.correo_institucional = out.req.data.correo_institucional} = {r}
             /\ <<out.req.data.correo_institucional, out.req.data.contrasena>> \in acked
    /\ (Sent("login") /\ out.obs.cause # "db_fault" /\ out.obs.acked_before)
          => /\ out.resp.status = 200
             /\ decode_access_token(out.resp.body.access_token, out.obs.at)
                    = [correo_institucional |-> out.req.data.correo_institucional]

\* a login succeeds for an account registered before another account was
C4_Witness ==
    /\ Sent("login")
    /\ out.obs.acked_before
    /\ out.resp.status = 200
    /\ \E r1 \in store, r2 \in store :
          /\ r1.id < r2.id
          /\ r1.correo_institucional = out.req.data.correo_institucional
          /\ r1.contrasena_hash.salt = "saltB"

\* C5: a login refused for a wrong password gets the very response (status,
\* detail, headers) that a login with a correo of no account got.
C5_SameRefusal ==
    (Sent("login") /\ out.obs.cause = "wrong_password" /\ unknown # None)
        => out.resp = unknown

C5_Witness ==
    /\ Sent("login")
    /\ out.obs.cause = "wrong_password"
    /\ unknown # None
    /\ out.resp.status = 401

C10_LoginTokens ==
    [][ (out' # None /\ out'.req.op = "login") =>
           /\ store' = store
           /\ out'.resp.status = 200 =>
                 \E e \in store :
                    /\ e.correo_institucional = out'.req.data.correo_institucional
                    /\ PasswordOf(e) = out'.req.data.contrasena
                    /\ out'.resp.body.access_token =
                          jwt_encode([sub |-> e.correo_institucional,
                                      exp |-> out'.obs.at
                                              + ACCESS_TOKEN_EXPIRE_MINUTES * SecondsPerMinute],
                                     SECRET_KEY) ]_vars

\* a token was issued at clock 1 while another account exists
C10_Witness ==
    /\ Sent("login")
    /\ out.resp.status = 200
    /\ out.obs.at = 1
    /\ out.resp.body.access_token.payload.exp = 1 + ACCESS_TOKEN_EXPIRE_MINUTES * SecondsPerMinute
    /\ Cardinality(store) = 2

\* the lifetime asked for at issue: expires_delta, or the default when absent
AskedTtl == IF tissue.delta = None THEN ACCESS_TOKEN_EXPIRE_MINUTES * SecondsPerMinute
            ELSE tissue.delta.seconds

\* C6 (as claimed): a token issued at t with ttl d for subject s decodes to s at
\* every time before t+d and to None at every time after t+d; a token with a
\* wrong signature, a changed payload or no JWT form decodes to None; with the
\* default ttl the token decodes at t+29min and not at t+31min.
C6_TokenLifetime ==
    decoded # None =>
        /\ decoded.kind # "issued" => decoded.data = None
        /\ decoded.kind = "issued" =>
              /\ decoded.at < tissue.at + AskedTtl
                    => decoded.data = [correo_institucional |-> tissue.sub]
              /\ decoded.at > tissue.at + AskedTtl => decoded.data = None

\* the same for every ttl but zero: what create_access_token does keep
TokenLifetimeNonZero ==
    (decoded # None /\ tissue.delta # timedelta(0)) => C6_TokenLifetime

\* the letters and digits of the claims about validation, read plainly
DecimalDigits09 == AsciiDigit
UppercaseLetters == AsciiUpper \cup {UpperEnye}
LowercaseLetters == AsciiLower \cup {LowerEnye}
Has(class, v) == \E i \in 1..Len(v) : v[i] \in class
Only(class, v) == \A i \in 1..Len(v) : v[i] \in class

Validated(field) == vfield = field /\ vresult # None

\* C8 (as claimed): a dni is accepted if and only if it is exactly 8 characters,
\* each one of 0..9; the message for a character that is no digit differs from
\* the message for a wrong length.
C8_DniEightDecimalDigits ==
    Validated("dni") =>
        /\ vresult.ok <=> (Len(vvalue) = 8 /\ Only(DecimalDigits09, vvalue))
        /\ (Len(vvalue) = 8 /\ ~Only(DecimalDigits09, vvalue))
              => (~vresult.ok /\ vresult.msg = "El DNI debe contener solo numeros")
        /\ (Len(vvalue) # 8 /\ Only(DecimalDigits09, vvalue))
              => (~vresult.ok /\ vresult.msg # "El DNI debe contener solo numeros")

\* C9 (as claimed): a password is accepted if and only if its length is in
\* 8..100 and it holds an uppercase letter, a lowercase letter and a digit; a
\* rejection names the first rule that fails, in the order length, uppercase,
\* lowercase, digit.
C9_PasswordPolicy ==
    Validated("contrasena") =>
        LET long == Len(vvalue) \in 8..100
            upper == Has(UppercaseLetters, vvalue)
            lower == Has(LowercaseLetters, vvalue)
            digit == Has(DecimalDigits09, vvalue)
        IN /\ vresult.ok <=> (long /\ upper /\ lower /\ digit)
           /\ ~long => vresult.type \in {"string_too_short", "string_too_long"}
           /\ (long /\ ~upper) =>
                 vresult.msg = "La contrasena debe contener al menos una letra mayuscula"
           /\ (long /\ upper /\ ~lower) =>
                 vresult.msg = "La contrasena debe contener al menos una letra minuscula"
           /\ (long /\ upper /\ lower /\ ~digit) =>
                 vresult.msg = "La contrasena debe contener al menos un numero"

\* the same with the classes the validator searches for: A..Z, a..z and \d
PasswordRulesOfValidator ==
    Validated("contrasena") =>
        LET long == Len(vvalue) \in 8..100
            upper == Has(AsciiUpper, vvalue)
            lower == Has(AsciiLower, vvalue)
            digit == Has(AsciiDigit \cup {ArabicThree}, vvalue)
        IN /\ vresult.ok <=> (long /\ upper /\ lower /\ digit)
           /\ ~long => vresult.type \in {"string_too_short", "string_too_long"}
           /\ (long /\ ~upper) =>
                 vresult.msg = "La contrasena debe contener al menos una letra mayuscula"
           /\ (long /\ upper /\ ~lower) =>
                 vresult.msg = "La contrasena debe contener al menos una letra minuscula"
           /\ (long /\ upper /\ lower /\ ~digit) =>
                 vresult.msg = "La contrasena debe contener al menos un numero"

====
